---- MODULE Spec2Model ----
(***************************************************************************)
(* A model of the CampusMap component (src/unnamed/part_000): the follow   *)
(* state, the live-position pipeline, map initialisation and the marker    *)
(* passes that run on every viewport change.                               *)
(*                                                                         *)
(* One action is one event delivered to the component (a callback of the   *)
(* position source, a renderer event, a click) together with the React     *)
(* re-renders it causes: the state updates of the handler are applied and  *)
(* the effects whose dependencies changed run in declaration order, until  *)
(* no update is pending.  Handlers and effects are operators from a state  *)
(* record to a state record, composed in the order the code runs them.     *)
(*                                                                         *)
(* The world is one-dimensional: a coordinate is a number of pixels at the *)
(* maximum cluster zoom, a bounding box is a pair <<west, east>>.          *)
(*                                                                         *)
(* Spec and SpecSeq are the component opened without a deep link and       *)
(* without direction requests.  SpecRoute adds the direction requests      *)
(* (drawRoute, getTravelTimes), which read only map.current, the token and *)
(* the stored position, and leaves out the viewport events.  SpecLink      *)
(* opens the page with a query string drawn from Queries.                  *)
(* SpecIndex loads catalogues drawn from PointSets and queries the index;  *)
(* SpecMinutes applies the duration conversion to the durations up to      *)
(* MaxSecs.                                                                *)
(***************************************************************************)
EXTENDS Integers, Sequences, FiniteSets, Bags, TLC

\* ---------------------------------------------------------------- bounds
MaxPos   == 2      \* distinct position samples the position source reports
MaxLocs  == 3      \* size of the largest catalogue
ZoomSpan == 2      \* the user can zoom between ClusterMaxZoom - ZoomSpan and ClusterMaxZoom
LocStep  == 50     \* spacing unit of the catalogue's coordinates
MaxReq   == 2      \* direction requests the user starts in one run
MaxCalls == 1      \* getTravelTimes calls in flight at a time
MaxShared == 2     \* shared-location markers after which no further sample is delivered
MaxSecs  == 150    \* longest route duration the backend reports, in seconds

\* ---------------------------------------------------- program constants
FollowZoom       == 17    \* flyTo zoom of the user-location effect and of Locate Me
InitZoomWithUser == 14    \* initial zoom when a position is known
InitZoomDefault  == 16    \* initial zoom otherwise
ClusterMaxZoom   == 18    \* Supercluster maxZoom
RadiusDesktop    == 40    \* Supercluster radius
RadiusMobile     == 20    \* Supercluster radius on a narrow display
MobileWidth      == 768   \* isMobile threshold
RoutePadding     == 50    \* fitBounds padding of drawRoute
SharedPadding    == 80    \* fitBounds padding of the shared-location effect
SharedZoom       == 17    \* flyTo zoom of the shared-location effect

NoPos    == 0
NoBounds == <<>>
NoIndex  == [points |-> <<>>, radius |-> 0]

Positions == 1..MaxPos
UserZooms == (ClusterMaxZoom - ZoomSpan)..ClusterMaxZoom
WorldMax  == LocStep * MaxLocs * MaxLocs
ViewBoxes == {<<0, WorldMax>>, <<0, LocStep \div 2>>}
Widths    == {MobileWidth, MobileWidth + 1}
StartEvents == {"dragstart", "zoomstart", "rotatestart", "touchstart"}

VARIABLES
  loading,          \* useState(true)
  showTokenInput,   \* useState(false)
  mapboxToken,      \* TRUE iff the token string is non-empty
  locations,        \* the catalogue, a sequence of location ids
  isMobile,         \* useState(window.innerWidth <= 768)
  userLocation,     \* NoPos or the last sample
  followUser,       \* useState(true): TRUE is Following, FALSE is Manual
  followRef,        \* followRef.current
  supercluster,     \* the index in use, NoIndex when none
  mapBounds,        \* NoBounds or the last reported bounding box
  clusters,         \* the last computed cluster set
  mapReady,         \* map.current # null
  mapZoom,          \* the renderer's zoom
  mapView,          \* the renderer's visible box
  moveendListeners, \* number of 'moveend' listeners registered on the map
  userMarker,       \* position of userMarkerRef.current, NoPos when none
  markersRef,       \* markersRef.current, a sequence of markers
  attached,         \* bag of location/cluster markers attached to the renderer
  instr,            \* renderer instructions issued by the last event
  lastEv,           \* the last event delivered
  delivered,        \* the last sample the position source delivered, NoPos when none
  hist,             \* follow-controller events since map initialisation, while on the scenario
  recording,        \* whether hist is kept (an observer, not program state)
  query,            \* window.location.search: the sharedLat and sharedLng parameters
  sharedLocation,   \* useState(null): NoShared or the decoded shared location
  sharedMarkers,    \* positions of the shared-location markers attached to the renderer
  nextReq,          \* number of direction requests issued so far
  routePending,     \* the drawRoute requests in flight
  routeSource,      \* the 'route' sources of the map style, by the request that added them
  routeLayer,       \* the 'route' layers of the map style, by the request that added them
  answered,         \* the latest started drawRoute request that answered with a route, 0 when none
  travel            \* the getTravelTimes calls in flight, a bag of calls

vars == <<loading, showTokenInput, mapboxToken, locations, isMobile,
          userLocation, followUser, followRef, supercluster, mapBounds,
          clusters, mapReady, mapZoom, mapView, moveendListeners, userMarker,
          markersRef, attached, instr, lastEv, delivered, hist, recording,
          query, sharedLocation, sharedMarkers, nextReq, routePending,
          routeSource, routeLayer, answered, travel>>

State ==
  [loading |-> loading, showTokenInput |-> showTokenInput,
   mapboxToken |-> mapboxToken, locations |-> locations,
   isMobile |-> isMobile, userLocation |-> userLocation,
   followUser |-> followUser, followRef |-> followRef,
   supercluster |-> supercluster, mapBounds |-> mapBounds,
   clusters |-> clusters, mapReady |-> mapReady, mapZoom |-> mapZoom,
   mapView |-> mapView, moveendListeners |-> moveendListeners,
   userMarker |-> userMarker, markersRef |-> markersRef,
   attached |-> attached, instr |-> instr, lastEv |-> lastEv,
   delivered |-> delivered, hist |-> hist,
   recording |-> recording, query |-> query,
   sharedLocation |-> sharedLocation, sharedMarkers |-> sharedMarkers,
   nextReq |-> nextReq, routePending |-> routePending,
   routeSource |-> routeSource, routeLayer |-> routeLayer,
   answered |-> answered, travel |-> travel]

Apply(s) ==
  /\ loading' = s.loading
  /\ showTokenInput' = s.showTokenInput
  /\ mapboxToken' = s.mapboxToken
  /\ locations' = s.locations
  /\ isMobile' = s.isMobile
  /\ userLocation' = s.userLocation
  /\ followUser' = s.followUser
  /\ followRef' = s.followRef
  /\ supercluster' = s.supercluster
  /\ mapBounds' = s.mapBounds
  /\ clusters' = s.clusters
  /\ mapReady' = s.mapReady
  /\ mapZoom' = s.mapZoom
  /\ mapView' = s.mapView
  /\ moveendListeners' = s.moveendListeners
  /\ userMarker' = s.userMarker
  /\ markersRef' = s.markersRef
  /\ attached' = s.attached
  /\ instr' = s.instr
  /\ lastEv' = s.lastEv
  /\ delivered' = s.delivered
  /\ hist' = s.hist
  /\ recording' = s.recording
  /\ query' = s.query
  /\ sharedLocation' = s.sharedLocation
  /\ sharedMarkers' = s.sharedMarkers
  /\ nextReq' = s.nextReq
  /\ routePending' = s.routePending
  /\ routeSource' = s.routeSource
  /\ routeLayer' = s.routeLayer
  /\ answered' = s.answered
  /\ travel' = s.travel

\* ------------------------------------------------------- spatial index
\* The catalogue: location i lies at LocX(i); the gaps grow with i so that
\* neighbours merge at different zoom levels.
LocX(i) == LocStep * (i - 1) * (i - 1)

Catalogue(n) == [i \in 1..n |-> i]

Abs(a) == IF a < 0 THEN -a ELSE a

Min(a, b) == IF a < b THEN a ELSE b

Max(a, b) == IF a > b THEN a ELSE b

RECURSIVE Pow2(_)
Pow2(k) == IF k <= 0 THEN 1 ELSE 2 * Pow2(k - 1)

\* A node of the index: a leaf (one location) or a cluster.
Leaf(i) == [cluster |-> FALSE, id |-> i, x |-> LocX(i), n |-> 1]

RawPoints(locs) == [k \in 1..Len(locs) |-> Leaf(locs[k])]

RECURSIVE SumN(_, _)
SumN(pts, S) ==
  IF S = {} THEN 0
  ELSE LET j == CHOOSE j \in S : TRUE IN pts[j].n + SumN(pts, S \ {j})

RECURSIVE SumWX(_, _)
SumWX(pts, S) ==
  IF S = {} THEN 0
  ELSE LET j == CHOOSE j \in S : TRUE
       IN pts[j].x * pts[j].n + SumWX(pts, S \ {j})

\* The cluster radius at zoom z, in pixels of the maximum cluster zoom.
RadiusAt(r, z) == r * Pow2(ClusterMaxZoom - z)

\* One level of Supercluster's greedy pass: every point not yet absorbed
\* takes the unabsorbed points within the radius; two or more points become
\* a cluster at their weighted centre, whose id packs the point's index, the
\* zoom and the catalogue size.
RECURSIVE ClusterPass(_, _, _, _, _, _)
ClusterPass(pts, i, visited, z, r, nLocs) ==
  IF i > Len(pts) THEN <<>>
  ELSE IF i \in visited THEN ClusterPass(pts, i + 1, visited, z, r, nLocs)
  ELSE LET nb   == {j \in 1..Len(pts) :
                      /\ j # i
                      /\ j \notin visited
                      /\ Abs(pts[j].x - pts[i].x) <= RadiusAt(r, z)}
           grp  == nb \cup {i}
           node == IF nb = {} THEN pts[i]
                   ELSE [cluster |-> TRUE,
                         id |-> (i - 1) * 32 + (z + 1) + nLocs,
                         x |-> SumWX(pts, grp) \div SumN(pts, grp),
                         n |-> SumN(pts, grp)]
       IN <<node>> \o ClusterPass(pts, i + 1, visited \cup grp, z, r, nLocs)

\* The tree of zoom z: the raw points above the maximum zoom, else the
\* clustering of the tree one level deeper.
RECURSIVE Tree(_, _, _)
Tree(locs, z, r) ==
  IF z > ClusterMaxZoom THEN RawPoints(locs)
  ELSE ClusterPass(Tree(locs, z + 1, r), 1, {}, z, r, Len(locs))

\* A zoom limit that counts the levels from the deepest one.
LimitZoom_Reversed(z) == Max(0, Min(ClusterMaxZoom + 1 - z, ClusterMaxZoom + 1))

\* supercluster._limitZoom(z)
LimitZoom(z) == Max(0, Min(z, ClusterMaxZoom + 1))

InBox(nd, box) == box[1] <= nd.x /\ nd.x <= box[2]

\* supercluster.getClusters(bbox, zoom)
GetClusters(sc, box, z) ==
  SelectSeq(Tree(sc.points, LimitZoom(z), sc.radius),
            LAMBDA nd : InBox(nd, box))

\* The key of a rendered marker: the location id of a leaf, the cluster id
\* of a cluster.
KeyOf(nd) == [cluster |-> nd.cluster, id |-> nd.id]

Range(f) == {f[k] : k \in DOMAIN f}

Keys(nodes) == {KeyOf(nd) : nd \in Range(nodes)}

RECURSIVE SeqToBag(_)
SeqToBag(q) ==
  IF q = <<>> THEN EmptyBag ELSE SetToBag({Head(q)}) (+) SeqToBag(Tail(q))

\* ------------------------------------------------- renderer instructions
\* An instruction the component gives the renderer.  "to" says what a flyTo
\* is aimed at; marker instructions carry the marker's key.
FlyToInstr(to, p, z) ==
  [op |-> "flyTo", to |-> to, cluster |-> FALSE, id |-> 0, pos |-> p, zoom |-> z]

MarkerInstr(op, m) ==
  [op |-> op, to |-> "marker", cluster |-> m.cluster, id |-> m.id, pos |-> m.x, zoom |-> 0]

UserMarkerInstr(op, p) ==
  [op |-> op, to |-> "user", cluster |-> FALSE, id |-> 0, pos |-> p, zoom |-> 0]

Emit(s, i) == [s EXCEPT !.instr = Append(@, i)]

MarkerOf(nd) == [cluster |-> nd.cluster, id |-> nd.id, x |-> nd.x]

\* new mapboxgl.Marker(el).setLngLat(..).addTo(map.current); markersRef.current.push(marker)
AddMarker(s, m) ==
  Emit([s EXCEPT !.attached = @ (+) SetToBag({m}),
                 !.markersRef = Append(@, m)],
       MarkerInstr("addMarker", m))

RECURSIVE AddMarkers(_, _)
AddMarkers(s, nodes) ==
  IF nodes = <<>> THEN s
  ELSE AddMarkers(AddMarker(s, MarkerOf(Head(nodes))), Tail(nodes))

\* marker.remove() for one tracked marker
RemoveMarker(s, m) ==
  Emit([s EXCEPT !.attached = @ (-) SetToBag({m})], MarkerInstr("removeMarker", m))

RECURSIVE RemoveMarkers(_, _)
RemoveMarkers(s, ms) ==
  IF ms = <<>> THEN s
  ELSE RemoveMarkers(RemoveMarker(s, Head(ms)), Tail(ms))

\* A pass that forgets the markers without detaching them.
ClearMarkers_NoDetach(s) == [s EXCEPT !.markersRef = <<>>]

\* markersRef.current.forEach(marker => marker.remove()); markersRef.current = []
ClearMarkers(s) ==
  [RemoveMarkers(s, s.markersRef) EXCEPT !.markersRef = <<>>]

\* ------------------------------------------------------- follow state
\* useEffect(() => { followRef.current = followUser; }, [followUser])
FollowRefEffect(s) == [s EXCEPT !.followRef = s.followUser]

\* A listener that leaves the follow state alone.
OnInteractionStart_Noop(s) == s

\* The listener registered for dragstart, zoomstart, rotatestart, touchstart
OnInteractionStart(s) == [s EXCEPT !.followUser = FALSE]

\* Whether the renderer emits zoomstart for a camera flight to zoom z: it
\* does when the zoom changes; for a flight that keeps the zoom either
\* outcome is allowed.
ZoomStartChoices(s, z) == IF s.mapZoom # z THEN {TRUE} ELSE {TRUE, FALSE}

\* A flight whose zoomstart never reaches the listener.
FlyTo_Silent(s, to, p, z, fires) ==
  Emit([s EXCEPT !.mapZoom = z], FlyToInstr(to, p, z))

\* map.current.flyTo({center, zoom, essential}): the instruction, the new
\* zoom, and the zoomstart the camera flight makes the renderer emit, which
\* the listener registered in initializeMap receives.
FlyTo(s, to, p, z, fires) ==
  LET s1 == Emit([s EXCEPT !.mapZoom = z], FlyToInstr(to, p, z))
  IN IF fires THEN OnInteractionStart(s1) ELSE s1

\* A user-location effect that recenters whatever the follow state.
UserLocationEffect_AlwaysFly(s, fires) ==
  IF s.mapReady /\ s.userLocation # NoPos
  THEN FlyTo(Emit([s EXCEPT !.userMarker = s.userLocation],
                  UserMarkerInstr(IF s.userMarker # NoPos THEN "setLngLat"
                                  ELSE "addUserMarker", s.userLocation)),
             "user", s.userLocation, FollowZoom, fires)
  ELSE s

\* A user-location effect that makes a new marker on every run.
UserLocationEffect_Recreate(s, fires) ==
  IF s.mapReady /\ s.userLocation # NoPos
  THEN LET s1 == Emit([s EXCEPT !.userMarker = s.userLocation],
                      UserMarkerInstr("addUserMarker", s.userLocation))
       IN IF s1.followRef
          THEN FlyTo(s1, "user", s1.userLocation, FollowZoom, fires)
          ELSE s1
  ELSE s

\* The user-location effect, dependencies [userLocation]
UserLocationEffect(s, fires) ==
  IF s.mapReady /\ s.userLocation # NoPos
  THEN LET s1 == IF s.userMarker # NoPos
                 THEN Emit([s EXCEPT !.userMarker = s.userLocation],
                           UserMarkerInstr("setLngLat", s.userLocation))
                 ELSE Emit([s EXCEPT !.userMarker = s.userLocation],
                           UserMarkerInstr("addUserMarker", s.userLocation))
       IN IF s1.followRef
          THEN FlyTo(s1, "user", s1.userLocation, FollowZoom, fires)
          ELSE s1
  ELSE s

\* A Locate Me that recenters without asking whether a position is known.
LocateMeClick_NoGuard(s, fires) ==
  IF s.mapReady
  THEN FlyTo([s EXCEPT !.followUser = TRUE], "user", s.userLocation, FollowZoom, fires)
  ELSE s

\* The Locate Me button's onClick
LocateMeClick(s, fires) ==
  IF s.userLocation # NoPos /\ s.mapReady
  THEN FlyTo([s EXCEPT !.followUser = TRUE], "user", s.userLocation, FollowZoom, fires)
  ELSE s

\* ------------------------------------------------- map and marker passes
\* An initializeMap that attaches the markers without tracking them.
InitializeMap_Untracked(s, token, container) ==
  IF ~container \/ ~token THEN s
  ELSE [AddMarkers([s EXCEPT !.mapReady = TRUE,
                             !.mapZoom = IF s.userLocation # NoPos
                                         THEN InitZoomWithUser
                                         ELSE InitZoomDefault,
                             !.mapView = <<0, WorldMax>>],
                   RawPoints(s.locations))
          EXCEPT !.markersRef = s.markersRef]

\* initializeMap(token); the container exists only while the token prompt
\* is not what is rendered.
InitializeMap(s, token, container) ==
  IF ~container \/ ~token THEN s
  ELSE AddMarkers([s EXCEPT !.mapReady = TRUE,
                            !.mapZoom = IF s.userLocation # NoPos
                                        THEN InitZoomWithUser
                                        ELSE InitZoomDefault,
                            !.mapView = <<0, WorldMax>>],
                  RawPoints(s.locations))

\* The map init effect, dependencies [loading, locations, showTokenInput, mapboxToken]
MapInitEffect(s) ==
  IF ~s.loading /\ ~s.showTokenInput /\ s.mapboxToken /\ Len(s.locations) > 0
  THEN IF ~s.mapReady
       THEN InitializeMap(s, s.mapboxToken, TRUE)
       ELSE AddMarkers(ClearMarkers(s), RawPoints(s.locations))
  ELSE s

\* The clustering effect, dependencies [locations]
ClusteringEffect(s) ==
  IF Len(s.locations) > 0
  THEN [s EXCEPT !.supercluster =
          [points |-> s.locations,
           radius |-> IF s.isMobile THEN RadiusMobile ELSE RadiusDesktop]]
  ELSE s

\* The map bounds effect, dependencies [supercluster]
MapBoundsEffect(s) ==
  IF s.mapReady /\ s.supercluster # NoIndex
  THEN [s EXCEPT !.moveendListeners = @ + 1, !.mapBounds = s.mapView]
  ELSE s

\* A cluster update that adds the new markers to the old ones.
ClusterUpdateEffect_KeepOld(s) ==
  IF ~s.mapReady \/ s.supercluster = NoIndex \/ s.mapBounds = NoBounds THEN s
  ELSE LET cl == GetClusters(s.supercluster, s.mapBounds, s.mapZoom)
       IN AddMarkers([s EXCEPT !.clusters = cl], cl)

\* A cluster update that keeps the clusters of the query before.
ClusterUpdateEffect_Cached(s) ==
  IF ~s.mapReady \/ s.supercluster = NoIndex \/ s.mapBounds = NoBounds THEN s
  ELSE LET cl == IF s.clusters # <<>> THEN s.clusters
                 ELSE GetClusters(s.supercluster, s.mapBounds, s.mapZoom)
       IN AddMarkers([ClearMarkers(s) EXCEPT !.clusters = cl], cl)

\* The cluster update effect, dependencies [supercluster, mapBounds, locations]
ClusterUpdateEffect(s) ==
  IF ~s.mapReady \/ s.supercluster = NoIndex \/ s.mapBounds = NoBounds THEN s
  ELSE LET cl == GetClusters(s.supercluster, s.mapBounds, s.mapZoom)
       IN AddMarkers([ClearMarkers(s) EXCEPT !.clusters = cl], cl)

\* The 'moveend' listener of the map bounds effect
OnMoveEnd(s) == [s EXCEPT !.mapBounds = s.mapView]

\* ------------------------------------------------------------ deep link
\* A string is a sequence of characters; a query parameter is present with
\* a text, or absent (URLSearchParams.get returns null).
Param(str) == [present |-> TRUE, text |-> str]

NoParam == [present |-> FALSE, text |-> <<>>]

InfinityStr == <<"I", "n", "f", "i", "n", "i", "t", "y">>

DigitChars == <<"0", "1", "2", "3", "4", "5", "6", "7", "8", "9">>

IsDigit(c) == \E d \in 1..Len(DigitChars) : DigitChars[d] = c

DigitVal(c) == (CHOOSE d \in 1..Len(DigitChars) : DigitChars[d] = c) - 1

StartsWith(str, pre) ==
  Len(str) >= Len(pre) /\ SubSeq(str, 1, Len(pre)) = pre

\* The longest prefix of digits
RECURSIVE DigitPrefix(_)
DigitPrefix(str) ==
  IF str = <<>> \/ ~IsDigit(Head(str)) THEN <<>>
  ELSE <<Head(str)>> \o DigitPrefix(Tail(str))

RECURSIVE DecVal(_, _)
DecVal(ds, acc) ==
  IF ds = <<>> THEN acc ELSE DecVal(Tail(ds), 10 * acc + DigitVal(Head(ds)))

NaN == [kind |-> "nan", val |-> 0]

\* parseFloat on strings of signs, digits and letters: an optional sign,
\* then Infinity or the longest prefix of digits; what follows is ignored;
\* NaN when there is neither.
ParseFloat(str) ==
  LET signed == str # <<>> /\ Head(str) \in {"-", "+"}
      neg    == signed /\ Head(str) = "-"
      body   == IF signed THEN Tail(str) ELSE str
      ds     == DigitPrefix(body)
  IN IF StartsWith(body, InfinityStr) THEN [kind |-> "inf", val |-> IF neg THEN -1 ELSE 1]
     ELSE IF ds = <<>> THEN NaN
     ELSE [kind |-> "num", val |-> IF neg THEN -DecVal(ds, 0) ELSE DecVal(ds, 0)]

IsFinite(v) == v.kind = "num"

\* The truthiness of what URLSearchParams.get returned
Truthy(prm) == prm.present /\ prm.text # <<>>

NoShared == [set |-> FALSE, lat |-> NaN, lng |-> NaN]

\* The deep-link effect, dependencies []: the shared location it sets
DeepLinkEffect(q) ==
  IF Truthy(q.lat) /\ Truthy(q.lng)
  THEN [set |-> TRUE, lat |-> ParseFloat(q.lat.text), lng |-> ParseFloat(q.lng.text)]
  ELSE NoShared

\* The zoom a fitBounds ends at: the widest view of the model.
FitZoom == ClusterMaxZoom - ZoomSpan

FitBoundsInstr(to, id, pad) ==
  [op |-> "fitBounds", to |-> to, cluster |-> FALSE, id |-> id, pos |-> 0,
   zoom |-> FitZoom, padding |-> pad]

\* map.current.fitBounds(bounds, {padding}): the instruction, the new zoom,
\* and the zoomstart of the camera movement.
FitBounds(s, to, id, pad, fires) ==
  LET s1 == Emit([s EXCEPT !.mapZoom = FitZoom], FitBoundsInstr(to, id, pad))
  IN IF fires \/ s.mapZoom # FitZoom THEN OnInteractionStart(s1) ELSE s1

SharedPos(sh) == <<sh.lat.val, sh.lng.val>>

SharedMarkerInstr(op, sh) ==
  [op |-> op, to |-> "shared", cluster |-> FALSE, id |-> 0, pos |-> SharedPos(sh), zoom |-> 0]

\* The shared-location effect, dependencies [sharedLocation, userLocation].
\* The renderer rejects coordinates that are not finite numbers: the marker
\* is not attached and the effect ends there.
SharedLocationEffect(s, fires) ==
  IF s.mapReady /\ s.sharedLocation.set
  THEN IF ~IsFinite(s.sharedLocation.lat) \/ ~IsFinite(s.sharedLocation.lng)
       THEN Emit(s, SharedMarkerInstr("throw", s.sharedLocation))
       ELSE LET s1 == Emit([s EXCEPT !.sharedMarkers =
                                       Append(@, SharedPos(s.sharedLocation))],
                           SharedMarkerInstr("addSharedMarker", s.sharedLocation))
            IN IF s1.userLocation # NoPos
               THEN FitBounds(s1, "shared", 0, SharedPadding, fires)
               ELSE FlyTo(s1, "shared", SharedPos(s1.sharedLocation), SharedZoom, fires)
  ELSE s

\* ------------------------------------------------------------- routing
RouteInstr(op, id) ==
  [op |-> op, to |-> "route", cluster |-> FALSE, id |-> id, pos |-> 0, zoom |-> 0]

\* fetch of the directions endpoint for one profile
FetchInstr(profile, id) ==
  [op |-> "fetch", to |-> profile, cluster |-> FALSE, id |-> id, pos |-> 0, zoom |-> 0]

\* drawRoute up to the fetch: request id is in flight
DrawRoute(s, id) ==
  IF ~s.mapReady \/ ~s.mapboxToken THEN s
  ELSE Emit([s EXCEPT !.routePending = @ \cup {id}], FetchInstr("driving", id))

\* map.current.removeLayer('route') when getLayer('route') finds one
RemoveRouteLayer(s) ==
  IF s.routeLayer # <<>>
  THEN Emit([s EXCEPT !.routeLayer = <<>>], RouteInstr("removeLayer", Head(s.routeLayer)))
  ELSE s

\* map.current.removeSource('route') when getSource('route') finds one
RemoveRouteSource(s) ==
  IF s.routeSource # <<>>
  THEN Emit([s EXCEPT !.routeSource = <<>>], RouteInstr("removeSource", Head(s.routeSource)))
  ELSE s

\* A response handler that draws the new route over the old one.
OnRouteResponse_NoRemove(s, id, kind, fires) ==
  LET s0 == [s EXCEPT !.routePending = @ \ {id}]
  IN IF kind = "route"
     THEN LET s3 == Emit([s0 EXCEPT !.routeSource = Append(@, id)],
                         RouteInstr("addSource", id))
              s4 == Emit([s3 EXCEPT !.routeLayer = Append(@, id)],
                         RouteInstr("addLayer", id))
          IN [FitBounds(s4, "route", id, RoutePadding, fires)
                EXCEPT !.answered = Max(@, id)]
     ELSE s0

\* The handlers of drawRoute's fetch: the answer of request id has a route,
\* has none, or the request failed.
OnRouteResponse(s, id, kind, fires) ==
  LET s0 == [s EXCEPT !.routePending = @ \ {id}]
  IN IF kind = "route"
     THEN LET s1 == RemoveRouteLayer(s0)
              s2 == RemoveRouteSource(s1)
              s3 == Emit([s2 EXCEPT !.routeSource = Append(@, id)],
                         RouteInstr("addSource", id))
              s4 == Emit([s3 EXCEPT !.routeLayer = Append(@, id)],
                         RouteInstr("addLayer", id))
          IN [FitBounds(s4, "route", id, RoutePadding, fires)
                EXCEPT !.answered = Max(@, id)]
     ELSE s0

Modes ==
  <<[profile |-> "walking", label |-> "Walk"],
    [profile |-> "cycling", label |-> "Cycle"],
    [profile |-> "driving", label |-> "Drive"]>>

\* Route durations the backend reports, in seconds
Durations == {90}

\* What a profile request comes to
Outcomes ==
  {[kind |-> "route", secs |-> d] : d \in Durations}
    \cup {[kind |-> "noRoute", secs |-> 0], [kind |-> "throws", secs |-> 0]}

NullDuration == -1

\* A conversion that drops the seconds of the last minute.
RoundMinutes_Floor(secs) == secs \div 60

\* Math.round(secs / 60)
RoundMinutes(secs) == (secs + 30) \div 60

\* A call of getTravelTimes suspended at the await of profile k with the
\* results pushed so far
Call(k, res) == [issued |-> k, results |-> res]

ToastInstr(title, times) ==
  [op |-> "toast", to |-> title, cluster |-> FALSE, id |-> 0, pos |-> 0, zoom |-> 0,
   times |-> times]

\* One turn of the loop of getTravelTimes up to its await: the request of
\* profile k is issued with the results res pushed so far.
IssueProfile(s, k, res) ==
  Emit([s EXCEPT !.travel = @ (+) SetToBag({Call(k, res)})],
       FetchInstr(Modes[k].profile, 0))

\* getTravelTimes up to its first await
GetTravelTimes(s) ==
  IF ~s.mapboxToken THEN s ELSE IssueProfile(s, 1, <<>>)

\* The entry a settled profile request adds to the results
ResultOf(mode, outcome) ==
  [label |-> mode.label,
   duration |-> IF outcome.kind = "route" THEN RoundMinutes(outcome.secs)
                ELSE NullDuration]

\* A loop that gives up at the first profile without a route.
OnTravelSettled_StopOnFailure(s, call, outcome) ==
  LET k   == call.issued
      res == Append(call.results, ResultOf(Modes[k], outcome))
      s0  == [s EXCEPT !.travel = @ (-) SetToBag({call})]
  IN IF outcome.kind # "route"
     THEN Emit(s0, ToastInstr("Estimated Travel Times", call.results))
     ELSE IF k < Len(Modes)
     THEN IssueProfile(s0, k + 1, res)
     ELSE Emit(s0, ToastInstr("Estimated Travel Times", res))

\* The continuation of a getTravelTimes call after the awaited request
\* settled: its entry is pushed, then the next profile is requested, or the
\* results are returned to handleGetDirections, which shows them.
OnTravelSettled(s, call, outcome) ==
  LET k   == call.issued
      res == Append(call.results, ResultOf(Modes[k], outcome))
      s0  == [s EXCEPT !.travel = @ (-) SetToBag({call})]
  IN IF k < Len(Modes)
     THEN IssueProfile(s0, k + 1, res)
     ELSE Emit(s0, ToastInstr("Estimated Travel Times", res))

\* handleGetDirections up to its await; id numbers the requests it issues
HandleGetDirections(s, id) ==
  IF s.userLocation # NoPos /\ s.mapReady
  THEN GetTravelTimes(DrawRoute([s EXCEPT !.nextReq = id], id))
  ELSE Emit(Emit(s, RouteInstr("openExternal", id)), ToastInstr("Directions", <<>>))

\* --------------------------------------------------------- re-rendering
\* A re-render after the state variables in ch changed: the effects whose
\* dependencies are in ch run in declaration order, and the state they set
\* causes the next re-render.
RECURSIVE Render(_, _, _)
Render(s, ch, fires) ==
  LET a == IF "followUser" \in ch THEN FollowRefEffect(s) ELSE s
      b == IF "userLocation" \in ch THEN UserLocationEffect(a, fires) ELSE a
      c == IF ch \cap {"loading", "locations", "showTokenInput", "mapboxToken"} # {}
           THEN MapInitEffect(b) ELSE b
      c2 == IF ch \cap {"sharedLocation", "userLocation"} # {}
            THEN SharedLocationEffect(c, fires) ELSE c
      d == IF "locations" \in ch THEN ClusteringEffect(c2) ELSE c2
      e == IF "supercluster" \in ch THEN MapBoundsEffect(d) ELSE d
      f == IF ch \cap {"supercluster", "mapBounds", "locations"} # {}
           THEN ClusterUpdateEffect(e) ELSE e
      new == (IF f.followUser # s.followUser THEN {"followUser"} ELSE {})
             \cup (IF "locations" \in ch /\ Len(c.locations) > 0
                   THEN {"supercluster"} ELSE {})
             \cup (IF "supercluster" \in ch /\ d.mapReady /\ d.supercluster # NoIndex
                   THEN {"mapBounds"} ELSE {})
  IN IF new = {} THEN f ELSE Render(f, new, fires)

\* ------------------------------------------------------------- events
FollowEvents == {"positionUpdate", "interactionStart", "recenterRequest"}

\* The event sequence of the follow-controller scenario.
Scenario ==
  <<"positionUpdate", "positionUpdate", "interactionStart", "positionUpdate">>

\* The history of a run that has left the scenario.
Overflow == <<[ev |-> "overflow", fly |-> 0]>>

UserFlights(is) ==
  Len(SelectSeq(is, LAMBDA i : i.op = "flyTo" /\ i.to = "user"))

\* The start of an event: nothing has been issued yet.
Begin(s, ev) == [s EXCEPT !.instr = <<>>, !.lastEv = ev]

\* The end of an event: a follow-controller event delivered to an
\* initialised map is remembered with the number of recenter instructions
\* it caused, as long as the events delivered so far are a prefix of the
\* scenario.
Finish(s0, s) ==
  IF ~s0.recording \/ ~s0.mapReady \/ s.lastEv \notin FollowEvents \/ s0.hist = Overflow
  THEN s
  ELSE IF Len(s0.hist) >= Len(Scenario) \/ s.lastEv # Scenario[Len(s0.hist) + 1]
  THEN [s EXCEPT !.hist = Overflow]
  ELSE [s EXCEPT !.hist = Append(@, [ev |-> s.lastEv,
                                     fly |-> UserFlights(s.instr)])]

Changed(s0, s) == IF s.followUser # s0.followUser THEN {"followUser"} ELSE {}

\* A fetchData that does not ask for the token when the token request fails.
FetchDataDone_NoPrompt(s, tokenOk, locsOk, n) ==
  LET s1 == IF tokenOk THEN [s EXCEPT !.mapboxToken = TRUE] ELSE s
      s2 == IF locsOk THEN [s1 EXCEPT !.locations = Catalogue(n)]
            ELSE [s1 EXCEPT !.showTokenInput = TRUE]
  IN [s2 EXCEPT !.loading = FALSE]

\* fetchData: the token request, then the catalogue request, then loading ends
FetchDataDone(s, tokenOk, locsOk, n) ==
  LET s1 == IF tokenOk THEN [s EXCEPT !.mapboxToken = TRUE]
            ELSE [s EXCEPT !.showTokenInput = TRUE]
      s2 == IF locsOk THEN [s1 EXCEPT !.locations = Catalogue(n)]
            ELSE [s1 EXCEPT !.showTokenInput = TRUE]
  IN [s2 EXCEPT !.loading = FALSE]

\* handleTokenSubmit
HandleTokenSubmit(s) ==
  IF s.mapboxToken
  THEN InitializeMap([s EXCEPT !.showTokenInput = FALSE], s.mapboxToken, ~s.showTokenInput)
  ELSE s

\* watchPosition's success callback
OnPosition(s, p) == [s EXCEPT !.userLocation = p]

\* watchPosition's error callback
OnPositionError(s) == s

\* onResize
OnResize(s, w) == [s EXCEPT !.isMobile = (w <= MobileWidth)]

Mounted ==
  /\ loading = TRUE
  /\ showTokenInput = FALSE
  /\ mapboxToken = FALSE
  /\ locations = <<>>
  /\ isMobile \in BOOLEAN
  /\ userLocation = NoPos
  /\ followUser = TRUE
  /\ followRef = TRUE
  /\ supercluster = NoIndex
  /\ mapBounds = NoBounds
  /\ clusters = <<>>
  /\ mapReady = FALSE
  /\ mapZoom = 0
  /\ mapView = <<0, WorldMax>>
  /\ moveendListeners = 0
  /\ userMarker = NoPos
  /\ markersRef = <<>>
  /\ attached = EmptyBag
  /\ instr = <<>>
  /\ lastEv = "mount"
  /\ delivered = NoPos
  /\ hist = <<>>
  /\ sharedMarkers = <<>>
  /\ nextReq = 0
  /\ routePending = {}
  /\ routeSource = <<>>
  /\ routeLayer = <<>>
  /\ answered = 0
  /\ travel = EmptyBag

\* The page opened with query string q, its mount effects run.
Opened(q) == query = q /\ sharedLocation = DeepLinkEffect(q)

NoQuery == [lat |-> NoParam, lng |-> NoParam]

\* The parameter values a link is opened with
ParamValues ==
  {NoParam, Param(<<>>), Param(<<"7">>), Param(<<"-", "7">>), Param(<<"x">>),
   Param(<<"7", "x">>), Param(InfinityStr)}

Queries == {[lat |-> a, lng |-> b] : a \in ParamValues, b \in ParamValues}

Init == Mounted /\ recording = FALSE /\ Opened(NoQuery)

InitSeq == Mounted /\ recording = TRUE /\ Opened(NoQuery)

InitLink == Mounted /\ recording = FALSE /\ \E q \in Queries : Opened(q)

FetchData ==
  /\ loading
  /\ \E tokenOk \in BOOLEAN, locsOk \in BOOLEAN, n \in {0, MaxLocs} :
       LET s1 == FetchDataDone(Begin(State, "fetchData"), tokenOk, locsOk, n)
           ch == {"loading", "mapboxToken", "showTokenInput"}
                 \cup (IF locsOk THEN {"locations"} ELSE {})
       IN Apply(Finish(State, Render(s1, ch, TRUE)))

EnterToken ==
  /\ showTokenInput
  /\ \E t \in BOOLEAN :
       Apply(Finish(State, Render([Begin(State, "enterToken") EXCEPT !.mapboxToken = t],
                                  {"mapboxToken"}, TRUE)))

TokenSubmit ==
  /\ showTokenInput
  /\ mapboxToken
  /\ Apply(Finish(State, Render(HandleTokenSubmit(Begin(State, "tokenSubmit")),
                                {"showTokenInput"}, TRUE)))

PositionUpdate ==
  /\ Len(sharedMarkers) < MaxShared
  /\ \E p \in Positions, fires \in ZoomStartChoices(State, FollowZoom) :
    Apply(Finish(State,
                 Render(OnPosition([Begin(State, "positionUpdate") EXCEPT !.delivered = p], p),
                        {"userLocation"}, fires)))

PositionError ==
  Apply(Finish(State, OnPositionError(Begin(State, "positionError"))))

InteractionStart ==
  /\ mapReady
  /\ \E kind \in StartEvents :
     \E z \in (IF kind = "zoomstart" THEN UserZooms ELSE {mapZoom}) :
       LET s0 == [Begin(State, "interactionStart") EXCEPT !.mapZoom = z]
           s1 == OnInteractionStart(s0)
       IN Apply(Finish(State, Render(s1, Changed(State, s1), TRUE)))

LocateMe ==
  /\ ~showTokenInput
  /\ \E fires \in ZoomStartChoices(State, FollowZoom) :
       LET s1 == LocateMeClick(Begin(State, "recenterRequest"), fires)
       IN Apply(Finish(State, Render(s1, Changed(State, s1), fires)))

MoveEnd ==
  /\ mapReady
  /\ \E box \in ViewBoxes :
       LET s0 == [Begin(State, "moveend") EXCEPT !.mapView = box]
       IN IF moveendListeners > 0
          THEN Apply(Finish(State, Render(OnMoveEnd(s0), {"mapBounds"}, TRUE)))
          ELSE Apply(Finish(State, s0))

Resize ==
  \E w \in Widths :
    Apply(Finish(State, OnResize(Begin(State, "resize"), w)))

GetDirections ==
  /\ ~showTokenInput
  /\ Len(locations) > 0
  /\ nextReq < MaxReq
  /\ BagCardinality(travel) < MaxCalls
  /\ LET id == nextReq + 1
     IN Apply(Finish(State, HandleGetDirections(Begin(State, "getDirections"), id)))

\* The event of a drawRoute request settling with an outcome of that kind
RouteEvent(kind) ==
  IF kind = "route" THEN "routeAnswer"
  ELSE IF kind = "noRoute" THEN "routeNoRoute" ELSE "routeThrows"

RouteResponse ==
  \E id \in routePending, kind \in {"route", "noRoute", "throws"}, fires \in BOOLEAN :
    LET s1 == OnRouteResponse(Begin(State, RouteEvent(kind)), id, kind, fires)
    IN Apply(Finish(State, Render(s1, Changed(State, s1), fires)))

\* The event of a profile request settling with an outcome of that kind
TravelEvent(kind) ==
  IF kind = "route" THEN "travelRoute"
  ELSE IF kind = "noRoute" THEN "travelNoRoute" ELSE "travelThrows"

TravelEvents == {TravelEvent(o.kind) : o \in Outcomes}

TravelSettle ==
  \E call \in BagToSet(travel), outcome \in Outcomes :
    Apply(Finish(State,
                 OnTravelSettled(Begin(State, TravelEvent(outcome.kind)), call, outcome)))

Next ==
  \/ FetchData
  \/ EnterToken
  \/ TokenSubmit
  \/ PositionUpdate
  \/ PositionError
  \/ InteractionStart
  \/ LocateMe
  \/ MoveEnd
  \/ Resize

Spec == Init /\ [][Next]_vars

\* The same program with the event history kept.
SpecSeq == InitSeq /\ [][Next]_vars

\* The program with direction requests, the viewport left alone.
NextRoute ==
  \/ FetchData
  \/ EnterToken
  \/ TokenSubmit
  \/ PositionUpdate
  \/ GetDirections
  \/ RouteResponse
  \/ TravelSettle

\* A wide display: the direction requests do not read isMobile.
InitRoute == Init /\ ~isMobile

SpecRoute == InitRoute /\ [][NextRoute]_vars

\* The page opened with a deep link.
NextLink ==
  \/ FetchData
  \/ EnterToken
  \/ TokenSubmit
  \/ PositionUpdate
  \/ PositionError
  \/ InteractionStart
  \/ LocateMe

SpecLink == InitLink /\ [][NextLink]_vars

\* ------------------------------------------------- the index on its own
\* The whole world as a bounding box
World == <<0, WorldMax>>

\* A location whose longitude lies outside the world
OffWorld == MaxLocs + 2

InWorld(i) == 0 <= LocX(i) /\ LocX(i) <= WorldMax

\* The sequences of at most n distinct elements of S
RECURSIVE DistinctSeqs(_, _)
DistinctSeqs(S, n) ==
  IF n = 0 THEN {<<>>}
  ELSE LET shorter == DistinctSeqs(S, n - 1)
       IN shorter \cup {Append(pr[1], pr[2]) :
                          pr \in {pr \in shorter \X S : pr[2] \notin Range(pr[1])}}

\* The catalogues the locations table can hold: its coordinate columns
\* carry no range constraint.
PointSets == DistinctSeqs((1..MaxLocs) \cup {OffWorld}, MaxLocs)

\* The zooms getClusters is asked for
QueryZooms == {0} \cup UserZooms \cup {ClusterMaxZoom + 1}

\* fetchData whose token request failed and whose catalogue request
\* answered with pts: setLocations(pts) runs the clustering effect.
LoadPoints ==
  /\ loading
  /\ \E pts \in PointSets :
       LET s1 == [FetchDataDone(Begin(State, "fetchData"), FALSE, TRUE, 0)
                    EXCEPT !.locations = pts]
       IN Apply(Finish(State, Render(s1, {"loading", "showTokenInput", "locations"}, TRUE)))

\* supercluster.getClusters(box, z) on the index in use
QueryIndex ==
  /\ supercluster # NoIndex
  /\ \E box \in ViewBoxes, z \in QueryZooms :
       Apply([Begin(State, "getClusters")
                EXCEPT !.clusters = GetClusters(supercluster, box, z),
                       !.mapBounds = box,
                       !.mapZoom = z])

NextIndex ==
  \/ LoadPoints
  \/ QueryIndex

SpecIndex == Init /\ [][NextIndex]_vars

\* ------------------------------------------- the duration on its own
\* A profile request answered with a route of secs seconds: the response's
\* duration and the entry getTravelTimes makes of it are kept in instr.
DurationInstr(mode, secs) ==
  [ToastInstr("duration", <<ResultOf(mode, [kind |-> "route", secs |-> secs])>>)
     EXCEPT !.id = secs]

ReportDuration ==
  \E k \in DOMAIN Modes, secs \in 0..MaxSecs :
    Apply(Emit(Begin(State, "reportDuration"), DurationInstr(Modes[k], secs)))

NextMinutes == ReportDuration

SpecMinutes == Init /\ [][NextMinutes]_vars

TypeOK ==
  /\ followUser \in BOOLEAN
  /\ followRef = followUser
  /\ userLocation \in Positions \cup {NoPos}
  /\ mapReady => mapZoom \in UserZooms \cup {InitZoomWithUser, InitZoomDefault, FollowZoom}

\* ---------------------------------------------------------- properties
Evs(h) == [k \in 1..Len(h) |-> h[k].ev]

Flys(h) == [k \in 1..Len(h) |-> h[k].fly]

HasUserFlight(is, p) ==
  \E k \in 1..Len(is) : is[k] = FlyToInstr("user", p, FollowZoom)

Removed(is) == {KeyOf(i) : i \in {j \in Range(is) : j.op = "removeMarker"}}

Created(is) == {KeyOf(i) : i \in {j \in Range(is) : j.op = "addMarker"}}

Updated(is) ==
  {KeyOf(i) : i \in {j \in Range(is) : j.op = "setLngLat" /\ j.to = "marker"}}

\* C1: an interaction start event leaves the follow state Manual and issues
\* no recenter; while Manual, every event other than an explicit recenter
\* request leaves it Manual, and a position update issues no recenter.
C1_InteractionForcesManual ==
  [][/\ lastEv' = "interactionStart"
          => ~followUser' /\ ~followRef' /\ UserFlights(instr') = 0
     /\ (~followRef /\ lastEv' # "recenterRequest")
          => ~followUser' /\ ~followRef' /\ UserFlights(instr') = 0]_vars

\* C1 witness: an interaction start event on a map that shows the user's
\* position has left the state Manual without any instruction.
C1_Witness ==
  /\ lastEv = "interactionStart"
  /\ mapReady
  /\ userMarker # NoPos
  /\ ~followUser
  /\ ~followRef
  /\ instr = <<>>

\* C2: after an explicit recenter request, with a position known and the map
\* initialised, exactly one recenter to the user's position at zoom 17 has
\* been issued and the follow state is Following.
C2_RecenterMakesFollowing ==
  (lastEv = "recenterRequest" /\ mapReady /\ userLocation # NoPos)
    => /\ UserFlights(instr) = 1
       /\ HasUserFlight(instr, userLocation)
       /\ followUser
       /\ followRef

\* C3: a position update, with all of its effects run, leaves the follow
\* state what it was.
C3_PositionKeepsFollowState ==
  [][lastEv' = "positionUpdate"
       => followUser' = followUser /\ followRef' = followRef]_vars

\* C4: the follow state starts as Following, and a position update delivered
\* while Following to an initialised map issues a recenter to that position
\* at zoom 17 and leaves the state Following.
C4_FollowingRecenters ==
  [][/\ lastEv = "mount" => followUser /\ followRef
     /\ (lastEv' = "positionUpdate" /\ followRef /\ mapReady)
          => HasUserFlight(instr', delivered') /\ followUser' /\ followRef']_vars

\* C5: a position update delivered while Manual moves the user marker to the
\* sample, issues no recenter and leaves the state Manual.
C5_ManualUpdatesMarkerOnly ==
  [][(lastEv' = "positionUpdate" /\ ~followRef /\ mapReady)
       => /\ userLocation' = delivered'
          /\ userMarker' = delivered'
          /\ UserFlights(instr') = 0
          /\ mapZoom' = mapZoom
          /\ ~followUser' /\ ~followRef']_vars

\* C5 witness: a position update that moved an existing marker without a
\* recenter, which only happens in Manual.
C5_Witness ==
  /\ lastEv = "positionUpdate"
  /\ mapReady
  /\ ~followRef
  /\ instr = <<UserMarkerInstr("setLngLat", delivered)>>
  /\ userMarker = delivered

C7_NoFixNoRecenter ==
  [][/\ delivered' = NoPos
          => UserFlights(instr') = 0 /\ userMarker' = NoPos /\ userLocation' = NoPos
     /\ lastEv' = "positionError"
          => followUser' = followUser /\ followRef' = followRef]_vars

\* C7 witness: an explicit recenter request on an initialised map for which
\* no sample was ever delivered.
C7_Witness ==
  /\ lastEv = "recenterRequest"
  /\ mapReady
  /\ delivered = NoPos
  /\ instr = <<>>

\* C8: once the map is initialised, the stored user position and the user
\* marker's position equal the most recently delivered sample.
C8_LatestSampleShown ==
  (mapReady /\ delivered # NoPos)
    => userLocation = delivered /\ userMarker = delivered

MarkerOfInstr(i) == [cluster |-> i.cluster, id |-> i.id, x |-> i.pos]

\* The attached markers after the instructions is, from the attached
\* markers att
RECURSIVE Replay(_, _)
Replay(att, is) ==
  IF is = <<>> THEN att
  ELSE Replay(IF Head(is).op = "addMarker"
              THEN att (+) SetToBag({MarkerOfInstr(Head(is))})
              ELSE IF Head(is).op = "removeMarker"
              THEN att (-) SetToBag({MarkerOfInstr(Head(is))})
              ELSE att,
              Tail(is))

\* The markers added by the instructions before the k-th since the last
\* removal, that is, by the pass the k-th instruction belongs to
AddedInPass(is, k) ==
  LET rm   == {j \in 1..(k - 1) : is[j].op = "removeMarker"}
      from == IF rm = {} THEN 0 ELSE CHOOSE j \in rm : \A h \in rm : h <= j
  IN Replay(EmptyBag, SubSeq(is, from + 1, k - 1))

\* C11: after every event the location and cluster markers attached to the
\* renderer are exactly the tracked markers, no key is attached twice, and
\* whenever a marker is attached the only markers attached at that moment
\* are those of the same pass: every marker of an earlier pass has been
\* detached before.
C11_NoMarkerLeak ==
  [][/\ attached' = SeqToBag(markersRef')
     /\ \A m \in BagToSet(attached') : CopiesIn(m, attached') = 1
     /\ \A m1, m2 \in BagToSet(attached') : KeyOf(m1) = KeyOf(m2) => m1 = m2
     /\ \A k \in 1..Len(instr') :
          instr'[k].op = "addMarker"
            => Replay(attached, SubSeq(instr', 1, k - 1)) = AddedInPass(instr', k)]_vars

\* C11 witness: a viewport change whose pass detached the markers of the
\* pass before and attached fewer markers than there are locations, one of
\* them a cluster, all of them tracked.
C11_Witness ==
  /\ lastEv = "moveend"
  /\ \E k \in 1..Len(instr) : instr[k].op = "removeMarker"
  /\ \E m \in BagToSet(attached) : m.cluster
  /\ BagCardinality(attached) < Len(locations)
  /\ attached = SeqToBag(markersRef)

\* The travel times the last event showed, as a set of results
TimesShown(is) ==
  {i.times : i \in {j \in Range(is) : j.op = "toast" /\ j.to = "Estimated Travel Times"}}

Labels(res) == [k \in 1..Len(res) |-> res[k].label]

\* The results a step from the calls tr to the calls tr2 may have extended:
\* those it showed and those of the calls in flight after it
Settled(tr, tr2, is) == TimesShown(is) \cup {c.results : c \in BagToSet(tr2)}

\* C12: every result getTravelTimes returns has exactly three entries, Walk,
\* Cycle and Drive in this order; the entry of a profile whose request threw
\* or had no route has no duration, the entry of a profile with a route has
\* its duration in minutes, and the entries pushed before stay what they
\* were.
C12_ThreeEntries ==
  [][lastEv' \in TravelEvents
       => /\ \A res \in TimesShown(instr') : Labels(res) = Labels(Modes)
          /\ \E call \in BagToSet(travel), res \in Settled(travel, travel', instr') :
               LET k == call.issued
               IN /\ TimesShown(instr') # {} <=> k = Len(Modes)
                  /\ travel' = IF k = Len(Modes)
                               THEN travel (-) SetToBag({call})
                               ELSE (travel (-) SetToBag({call}))
                                      (+) SetToBag({Call(k + 1, res)})
                  /\ Len(res) = k
                  /\ SubSeq(res, 1, k - 1) = call.results
                  /\ res[k].label = Modes[k].label
                  /\ (lastEv' = "travelRoute")
                       = (res[k].duration \in {RoundMinutes(d) : d \in Durations})
                  /\ (lastEv' # "travelRoute")
                       = (res[k].duration = NullDuration)]_vars

\* C12 witness: a call has returned three entries of which the last, whose
\* request threw, has no duration and the other two have one.
C12_Witness ==
  /\ lastEv = "travelThrows"
  /\ \E res \in TimesShown(instr) :
       /\ Len(res) = 3
       /\ res[1].duration # NullDuration
       /\ res[2].duration # NullDuration
       /\ res[3].duration = NullDuration

\* The profiles whose request a call has issued
IssuedBy(call) == {Modes[k].profile : k \in 1..call.issued}

AllProfiles == {Modes[k].profile : k \in 1..Len(Modes)}

\* C13: when a profile request of a getTravelTimes call settles, the call
\* has issued the requests of all three profiles.
C13_IssuedBeforeAnySettles ==
  [][lastEv' \in TravelEvents
       => \A call \in BagToSet(travel) :
            CopiesIn(call, travel') < CopiesIn(call, travel)
              => IssuedBy(call) = AllProfiles]_vars

\* C14: while a profile request of a getTravelTimes call is outstanding,
\* the requests of the other profiles have been issued: none of them waits
\* for it to settle.
C14_SlowDoesNotBlock ==
  \A call \in BagToSet(travel) : IssuedBy(call) = AllProfiles

\* The overlay replace of request id over the layers ly and sources src
OverlayReplace(ly, src, id) ==
  (IF ly # <<>> THEN <<RouteInstr("removeLayer", Head(ly))>> ELSE <<>>)
    \o (IF src # <<>> THEN <<RouteInstr("removeSource", Head(src))>> ELSE <<>>)
    \o <<RouteInstr("addSource", id), RouteInstr("addLayer", id),
         FitBoundsInstr("route", id, RoutePadding)>>

\* C15: the answer of a drawRoute request that has a route removes the
\* route layer and the route source when there are any, then adds the
\* source and the layer of the new route, then fits the viewport to it
\* with padding 50, and does nothing else; after every event there is at
\* most one route layer and one route source.
C15_SingleOverlayReplace ==
  [][/\ Len(routeLayer') <= 1
     /\ Len(routeSource') <= 1
     /\ lastEv' = "routeAnswer"
          => \E id \in routePending \ routePending' :
               /\ instr' = OverlayReplace(routeLayer, routeSource, id)
               /\ routeLayer' = <<id>>
               /\ routeSource' = <<id>>]_vars

\* C15 witness: the answer of a request has replaced the overlay of another
\* request.
C15_Witness ==
  /\ lastEv = "routeAnswer"
  /\ Len(instr) = 5
  /\ instr[1].op = "removeLayer"
  /\ instr[2].op = "removeSource"
  /\ instr[5] = FitBoundsInstr("route", Head(routeLayer), RoutePadding)
  /\ instr[1].id # instr[5].id

\* C16: the route overlay is that of the latest started drawRoute request
\* among those that have answered with a route: the answer of a request
\* started before it is not applied.
C16_StaleAnswerDiscarded ==
  routeLayer # <<>> => routeLayer = <<answered>> /\ routeSource = <<answered>>

Fetches(is) == {i \in Range(is) : i.op = "fetch"}

SharedInstrs(is) == SelectSeq(is, LAMBDA i : i.to = "shared")

\* Both parameters are present and parse as finite numbers
ValidLink(q) ==
  /\ q.lat.present
  /\ q.lng.present
  /\ IsFinite(ParseFloat(q.lat.text))
  /\ IsFinite(ParseFloat(q.lng.text))

\* C18: a shared location is set exactly when sharedLat and sharedLng are
\* both present and both parse as finite numbers; otherwise no marker is
\* attached for it and no instruction is given for it.
C18_SharedIffFinite ==
  /\ sharedLocation.set <=> ValidLink(query)
  /\ ~ValidLink(query) => sharedMarkers = <<>> /\ SharedInstrs(instr) = <<>>

\* C19: with a valid deep link and no sample ever delivered, once the map
\* is initialised exactly one shared-location marker is attached; the
\* event that initialises the map gives exactly one flyTo for the shared
\* location, no other event gives one, and no event gives a fitBounds.
C19_SharedShownOnce ==
  [][(ValidLink(query) /\ delivered' = NoPos)
       => /\ mapReady' => Len(sharedMarkers') = 1
          /\ Len(SelectSeq(instr', LAMBDA i : i.op = "flyTo" /\ i.to = "shared"))
               = IF ~mapReady /\ mapReady' THEN 1 ELSE 0
          /\ \A k \in 1..Len(instr') : instr'[k].op # "fitBounds"]_vars

\* The index of a catalogue and a radius, built anew
FreshIndex(locs, r) == [points |-> locs, radius |-> r]

C21_CoarserIsFewer ==
  supercluster # NoIndex
    => Len(GetClusters(supercluster, World, 0))
         <= Len(GetClusters(supercluster, World, ClusterMaxZoom))

\* C21 witness: a query of the whole world at zoom 0 has returned fewer
\* nodes than the index holds at the maximum cluster zoom.
C21_Witness ==
  /\ lastEv = "getClusters"
  /\ mapBounds = World
  /\ mapZoom = 0
  /\ Len(clusters) = 1
  /\ Len(GetClusters(supercluster, World, ClusterMaxZoom)) >= 2

\* C22: a location whose coordinates lie outside the world is rejected when
\* the index is built: the index in use never holds such a location.
C22_OutOfRangeRejected ==
  \A k \in 1..Len(supercluster.points) : InWorld(supercluster.points[k])

\* C23: a route of s seconds is reported as the whole number of minutes
\* nearest to s / 60, a half minute going up: the minutes m reported for s
\* satisfy 60 m - 30 <= s < 60 m + 30, under the label of its profile.
C23_NearestMinute ==
  lastEv = "reportDuration"
    => /\ Len(instr) = 1
       /\ Len(instr[1].times) = 1
       /\ instr[1].times[1].label \in {Modes[k].label : k \in DOMAIN Modes}
       /\ LET s == instr[1].id
              m == instr[1].times[1].duration
          IN /\ m \in Nat
             /\ 60 * m - 30 <= s
             /\ s < 60 * m + 30

\* C23 witness: a route of a minute and a half has been reported as two
\* minutes.
C23_Witness ==
  /\ lastEv = "reportDuration"
  /\ instr[1].id = 90
  /\ instr[1].times[1].duration = 2

\* C24: the follow state goes from Following to Manual only on an
\* interaction of the user: no flyTo the component issues itself, after a
\* position update or an explicit recenter request, takes it to Manual.
C24_OnlyUserLeavesFollowing ==
  [][(followRef /\ ~followRef') => lastEv' = "interactionStart"]_vars

\* C25: a position update delivered while Manual issues no instruction that
\* changes the viewport, neither a flyTo nor a fitBounds, also when a shared
\* location was decoded from the link.
C25_ManualKeepsViewport ==
  [][(lastEv' = "positionUpdate" /\ ~followRef /\ mapReady)
       => /\ \A k \in 1..Len(instr') : instr'[k].op \notin {"flyTo", "fitBounds"}
          /\ mapZoom' = mapZoom
          /\ mapView' = mapView]_vars

\* C26: at most one shared-location marker is attached to the renderer,
\* however many position updates follow the decoding of the link.
C26_OneSharedMarker == Len(sharedMarkers) <= 1

\* The instructions of a pass that attach, or move, the user marker
UserMarkerOps(is, op) ==
  SelectSeq(is, LAMBDA i : i.to = "user" /\ i.op = op)

\* C27: at most one user-position marker is attached: a marker is made only
\* while there is none, by the first position update the initialised map
\* receives, at the sample; a marker once made is kept, and every later
\* update moves it to the sample without making another.
C27_OneUserMarker ==
  [][/\ Len(UserMarkerOps(instr', "addUserMarker")) <= 1
     /\ UserMarkerOps(instr', "addUserMarker") # <<>>
          => userMarker = NoPos /\ lastEv' = "positionUpdate"
     /\ userMarker # NoPos => userMarker' # NoPos
     /\ (lastEv' = "positionUpdate" /\ mapReady)
          => /\ userMarker' = delivered'
             /\ IF userMarker = NoPos
                THEN /\ UserMarkerOps(instr', "addUserMarker")
                          = <<UserMarkerInstr("addUserMarker", delivered')>>
                     /\ UserMarkerOps(instr', "setLngLat") = <<>>
                ELSE /\ UserMarkerOps(instr', "addUserMarker") = <<>>
                     /\ UserMarkerOps(instr', "setLngLat")
                          = <<UserMarkerInstr("setLngLat", delivered')>>]_vars

\* C27 witness: a later position update has moved the marker the first one
\* made, without making another.
C27_Witness ==
  /\ lastEv = "positionUpdate"
  /\ mapReady
  /\ userMarker = delivered
  /\ UserMarkerOps(instr, "setLngLat") = <<UserMarkerInstr("setLngLat", delivered)>>
  /\ UserMarkerOps(instr, "addUserMarker") = <<>>
  /\ delivered = MaxPos

\* Both the first sample and the initialisation of the map have happened.
BothHappened(ready, loc) == ready /\ loc # NoPos

\* C28: in whichever order the first sample and the initialisation of the
\* map occur, the event that completes the two leaves the user marker at
\* the known position and, when it is a sample delivered in Following, has
\* recentred the viewport on it: no further sample is needed.
C28_EitherOrderShowsUser ==
  [][(~BothHappened(mapReady, userLocation) /\ BothHappened(mapReady', userLocation'))
       => /\ userMarker' = userLocation'
          /\ (followRef /\ mapReady) => HasUserFlight(instr', userLocation')]_vars

\* The markers of the cluster query for the renderer's current viewport
ViewportMarkers(sc, box, z) ==
  [k \in 1..Len(GetClusters(sc, box, z)) |-> MarkerOf(GetClusters(sc, box, z)[k])]

\* C29: on every path to an initialised map, with the token fetched or
\* entered by hand after the index was built, the viewport-change listener
\* is registered, and once the map is initialised and after every later
\* camera move the rendered markers are the cluster query's result for the
\* current viewport.
C29_EveryInitPathClusters ==
  [][(/\ lastEv' \in {"fetchData", "tokenSubmit", "moveend"}
      /\ mapReady'
      /\ supercluster' # NoIndex)
       => /\ moveendListeners' > 0
          /\ markersRef' = ViewportMarkers(supercluster', mapView', mapZoom')]_vars

\* C30: after any sequence of window resizes and catalogue loads, the
\* radius of the index in use is that of the current display class: 20 on
\* a narrow display, 40 otherwise.
C30_RadiusFollowsDisplay ==
  supercluster # NoIndex
    => supercluster.radius = IF isMobile THEN RadiusMobile ELSE RadiusDesktop

====
